---- MODULE Spec2Model ----
(***************************************************************************)
(* Model of bot/library.go of mumbledj: NewLibrary and the accessors of    *)
(* Library, mediaFile and playlistFile.                                    *)
(*                                                                         *)
(* Go strings are sequences of one-character strings, so that strings.Cut, *)
(* filepath.Join, filepath.Clean and filepath.Base are computed and not    *)
(* assumed.  The recursion of NewLibrary is a stack of frames; a frame is  *)
(* one activation of NewLibrary.  os.ReadDir is the environment: the       *)
(* listing of a directory is chosen when the directory is read, and kept   *)
(* in fsys.                                                                *)
(***************************************************************************)
EXTENDS Naturals, Sequences, FiniteSets

VARIABLES
    root,                \* argument root of the top-level call
    extensions,          \* argument extensions
    playlistExtensions,  \* argument playlistExtensions
    stack,               \* activations of NewLibrary, the innermost last
    ret,                 \* the (Library, error) a finished activation returns
    fsys,                \* what os.ReadDir answered, by path
    reads                \* the os.ReadDir calls made so far, in order

vars == <<root, extensions, playlistExtensions, stack, ret, fsys, reads>>

(***************************************************************************)
(* Bounds and input universes.                                             *)
(***************************************************************************)

\* Total number of directory entries in the file system that is walked.
MaxEntries == 4

s_mp3 == <<"m", "p", "3">>
s_m3u == <<"m", "3", "u">>
s_empty == <<>>

\* The root paths tried: an absolute clean one and a relative one that
\* filepath.Clean changes.
Roots == { <<"/", "l">>, <<"l", "/">> }

MediaLists == { <<>>, <<s_mp3>>, <<s_empty>>, <<s_mp3, s_mp3>> }

PlaylistLists == { <<>>, <<s_m3u>>, <<s_empty>>, <<s_m3u, s_mp3>>, <<s_m3u, s_m3u>> }

\* The directory entries a listing is drawn from, sorted by filename as
\* os.ReadDir returns them (byte order: '.' < 'A' < 'a').
Universe ==
    << [name |-> <<"A", "l", ".", "m", "p", "3">>, isDir |-> TRUE],
       [name |-> <<"a", ".", "b", ".", "m", "p", "3">>, isDir |-> FALSE],
       [name |-> <<"a", ".", "m", "p", "3">>, isDir |-> FALSE],
       [name |-> <<"b", ".", "m", "3", "u">>, isDir |-> FALSE],
       [name |-> <<"c", ".">>, isDir |-> FALSE],
       [name |-> <<"r", "a", "d", "i", "o">>, isDir |-> FALSE],
       [name |-> <<"z">>, isDir |-> TRUE] >>

(***************************************************************************)
(* Strings and paths.                                                      *)
(***************************************************************************)

Range(s) == { s[i] : i \in 1..Len(s) }

RECURSIVE Index(_, _, _)
\* The first position at or after i where character c stands in s, else 0.
Index(s, c, i) ==
    IF i > Len(s) THEN 0
    ELSE IF s[i] = c THEN i
    ELSE Index(s, c, i + 1)

RECURSIVE LastIndex(_, _, _)
\* The last position at or before i where character c stands in s, else 0.
LastIndex(s, c, i) ==
    IF i = 0 THEN 0
    ELSE IF s[i] = c THEN i
    ELSE LastIndex(s, c, i - 1)

\* A cut at the LAST separator (what filepath.Ext would look at).
CutAtLast(s, sep) ==
    LET i == LastIndex(s, sep, Len(s))
    IN  IF i = 0
        THEN [before |-> s, after |-> <<>>, found |-> FALSE]
        ELSE [before |-> SubSeq(s, 1, i - 1),
              after  |-> SubSeq(s, i + 1, Len(s)),
              found  |-> TRUE]

\* strings.Cut(s, sep) for a one-character separator.
Cut(s, sep) ==
    LET i == Index(s, sep, 1)
    IN  IF i = 0
        THEN [before |-> s, after |-> <<>>, found |-> FALSE]
        ELSE [before |-> SubSeq(s, 1, i - 1),
              after  |-> SubSeq(s, i + 1, Len(s)),
              found  |-> TRUE]

RECURSIVE Split(_)
\* The elements of a path between its separators (empty ones included).
Split(p) ==
    LET c == Cut(p, "/")
    IN  IF c.found THEN <<c.before>> \o Split(c.after) ELSE <<p>>

RECURSIVE JoinElems(_)
JoinElems(es) ==
    IF es = <<>> THEN <<>>
    ELSE IF Len(es) = 1 THEN es[1]
    ELSE es[1] \o <<"/">> \o JoinElems(Tail(es))

RECURSIVE CleanElems(_, _, _)
\* filepath.Clean's pass over the elements: out is what is kept so far.
CleanElems(es, out, rooted) ==
    IF es = <<>> THEN out
    ELSE LET e == es[1]
             rest == Tail(es)
         IN  IF e = <<>> \/ e = <<".">>
             THEN CleanElems(rest, out, rooted)
             ELSE IF e = <<".", ".">>
             THEN IF out # <<>> /\ out[Len(out)] # <<".", ".">>
                  THEN CleanElems(rest, SubSeq(out, 1, Len(out) - 1), rooted)
                  ELSE IF rooted
                  THEN CleanElems(rest, out, rooted)
                  ELSE CleanElems(rest, Append(out, e), rooted)
             ELSE CleanElems(rest, Append(out, e), rooted)

\* filepath.Clean(path) on a Unix system.
Clean(path) ==
    IF path = <<>> THEN <<".">>
    ELSE LET rooted == path[1] = "/"
             kept == JoinElems(CleanElems(Split(path), <<>>, rooted))
         IN  IF rooted THEN <<"/">> \o kept
             ELSE IF kept = <<>> THEN <<".">>
             ELSE kept

\* filepath.Join(dir, name): empty elements are ignored, the result is Cleaned.
Join(dir, name) ==
    IF dir = <<>> /\ name = <<>> THEN <<>>
    ELSE IF dir = <<>> THEN Clean(name)
    ELSE IF name = <<>> THEN Clean(dir)
    ELSE Clean(dir \o <<"/">> \o name)

RECURSIVE StripSlashes(_)
StripSlashes(p) ==
    IF p # <<>> /\ p[Len(p)] = "/"
    THEN StripSlashes(SubSeq(p, 1, Len(p) - 1))
    ELSE p

\* filepath.Base(path).
Base(path) ==
    IF path = <<>> THEN <<".">>
    ELSE LET p == StripSlashes(path)
             i == LastIndex(p, "/", Len(p))
             b == SubSeq(p, i + 1, Len(p))
         IN  IF b = <<>> THEN <<"/">> ELSE b

(***************************************************************************)
(* Errors.  An error value is the sequence of its layers, the outermost    *)
(* first; nil is the empty sequence.  A layer made by fmt.Errorf keeps the *)
(* text of the error it was given (the layers after it) and, only when the *)
(* verb is %w, also unwraps to it.                                         *)
(***************************************************************************)

nil == <<>>

ErrExtensionSet == << [kind |-> "sentinel", id |-> "ErrExtensionSet"] >>
ErrExtensionsOverlap == << [kind |-> "sentinel", id |-> "ErrExtensionsOverlap"] >>
ErrEmptyLibrary == << [kind |-> "sentinel", id |-> "ErrEmptyLibrary"] >>

\* The *fs.PathError of a failed os.ReadDir(path).
PathError(path) == << [kind |-> "PathError", path |-> path] >>

\* fmt.Errorf("open library %s: <what>...: %w" or "...: %s", dir, ..., inner).
Errorf(dir, what, verb, inner) ==
    << [kind |-> "Errorf", path |-> dir, what |-> what, verb |-> verb] >> \o inner

\* errors.Unwrap(err).
Unwrap(err) ==
    IF err # nil /\ err[1].kind = "Errorf" /\ err[1].verb = "w"
    THEN Tail(err)
    ELSE nil

RECURSIVE Is(_, _)
\* errors.Is(err, target) for a sentinel target.
Is(err, target) ==
    err # nil /\ (err = target \/ Is(Unwrap(err), target))

\* The "open library <path>" prefixes of the error's message, the outermost first.
Breadcrumbs(err) ==
    LET layers == SelectSeq(err, LAMBDA l : l.kind = "Errorf")
    IN  [i \in 1..Len(layers) |-> layers[i].path]

(***************************************************************************)
(* Library, mediaFile, playlistFile and their methods.                     *)
(***************************************************************************)

\* A library whose root is normalised with filepath.Clean.
NewLibCleaned(dir) == [root |-> Clean(dir), entries |-> <<>>, nested |-> <<>>]

\* lib := Library{root: root}
NewLib(dir) == [root |-> dir, entries |-> <<>>, nested |-> <<>>]

loadSingleFile(l, path) ==
    [lib |-> [l EXCEPT !.entries =
                 Append(@, [type  |-> "mediaFile",
                            path  |-> path,
                            title |-> Base(path)])],
     err |-> nil]

loadPlaylistFile(l, path) ==
    [lib |-> [l EXCEPT !.entries =
                 Append(@, [type  |-> "playlistFile",
                            paths |-> <<path>>,
                            title |-> Base(path)])],
     err |-> nil]

\* Playable.Files of an entry (mediaFile.Files, playlistFile.Files).
EntryFiles(e) == IF e.type = "mediaFile" THEN <<e.path>> ELSE e.paths

\* Playable.Title of an entry.
EntryTitle(e) == e.title

\* Playable.Nested of an entry: always nil.
EntryNested(e) == <<>>

Root(l) == l.root

\* A Files that does not tell playlists from media files.
FilesOfAllEntries(l) ==
    [i \in 1..Len(l.entries) |-> EntryFiles(l.entries[i])[1]]

Files(l) ==
    LET media == SelectSeq(l.entries, LAMBDA e : e.type = "mediaFile")
    IN  [i \in 1..Len(media) |-> media[i].path]

Title(l) == Base(l.root)

Nested(l) == l.nested

(***************************************************************************)
(* The steps of NewLibrary.                                                *)
(***************************************************************************)

\* len(extensions) == 0
NoExtensions(exts) == Len(exts) = 0

\* The empty-extension-set error with the sentinel formatted with %s.
ExtensionSetErrorUnwrapped(dir) == Errorf(dir, <<>>, "s", ErrExtensionSet)

\* The error returned for an empty extensions list.
ExtensionSetError(dir) == Errorf(dir, <<>>, "w", ErrExtensionSet)

\* The error returned for the playlist extension e that is a media extension too.
OverlapError(dir, e) ==
    Errorf(dir, <<"playlist extension", e>>, "w", ErrExtensionsOverlap)

\* The error returned when os.ReadDir failed with err.
OpenError(dir, err) == Errorf(dir, <<>>, "w", err)

\* The lookup table ext.
ExtTable(exts) == Range(exts)

\* An overlap check that looks at the first playlist extension only.
FirstOverlapHeadOnly(exts, pexts) ==
    IF pexts # <<>> /\ pexts[1] \in ExtTable(exts) THEN 1 ELSE 0

\* The loop over playlistExtensions: the index of the first one that is in
\* ext, or 0 when the loop runs to its end.
FirstOverlap(exts, pexts) ==
    IF \E i \in 1..Len(pexts) : pexts[i] \in ExtTable(exts)
    THEN CHOOSE i \in 1..Len(pexts) :
            /\ pexts[i] \in ExtTable(exts)
            /\ \A j \in 1..(i - 1) : pexts[j] \notin ExtTable(exts)
    ELSE 0

\* The lookup table pext once the loop has run to its end.
PextTable(pexts) == Range(pexts)

\* len(fs) == 0
IsEmptyListing(fs) == Len(fs) = 0

\* The error returned for an empty directory: the sentinel is formatted with %s.
EmptyLibraryError(dir) == Errorf(dir, <<>>, "s", ErrEmptyLibrary)

\* A nested failure handed up as it is.
NestedErrorUnwrapped(dir, err) == err

\* The error returned when the nested NewLibrary failed.
NestedError(dir, err) == Errorf(dir, <<>>, "w", err)

\* An entry counts as a directory only when its name has no dot.
IsDirByName(f) == f.isDir /\ ~Cut(f.name, ".").found

\* f.IsDir()
IsDir(f) == f.isDir

\* The extension by the last dot.
ExtensionOfLast(name) == CutAtLast(name, ".").after

\* _, e, _ := strings.Cut(f.Name(), ".")
ExtensionOf(name) == Cut(name, ".").after

\* The switch on a non-directory entry: the library after it, and the error.
Classify(l, dir, f) ==
    LET e == ExtensionOf(f.name)
        path == Join(dir, f.name)
        ef == e \in ExtTable(extensions)
        pef == e \in PextTable(playlistExtensions)
    IN  IF ef
        THEN LET r == loadSingleFile(l, path)
             IN  IF r.err # nil
                 THEN [lib |-> r.lib,
                       err |-> Errorf(dir, <<"file", f.name>>, "w", r.err)]
                 ELSE r
        ELSE IF pef
        THEN LET r == loadPlaylistFile(l, path)
             IN  IF r.err # nil
                 THEN [lib |-> r.lib,
                       err |-> Errorf(dir, <<"playlist", f.name>>, "w", r.err)]
                 ELSE r
        ELSE [lib |-> l, err |-> nil]

(***************************************************************************)
(* os.ReadDir.                                                             *)
(***************************************************************************)

\* The number of directory entries listed so far.
RECURSIVE TotalEntries(_, _)
TotalEntries(fsmap, paths) ==
    IF paths = {} THEN 0
    ELSE LET p == CHOOSE q \in paths : TRUE
         IN  Len(fsmap[p].list) + TotalEntries(fsmap, paths \ {p})

\* The listings os.ReadDir may return: the entries sorted by filename.
Listings(budget) ==
    { SelectSeq(Universe, LAMBDA e : e \in S) :
        S \in { T \in SUBSET Range(Universe) : Cardinality(T) <= budget } }

\* What os.ReadDir(path) may answer: an error, or a listing.
ReadDirOutcomes(path) ==
    IF path \in DOMAIN fsys
    THEN { fsys[path] }
    ELSE { [err |-> PathError(path), list |-> <<>>] }
         \cup { [err |-> nil, list |-> fs] :
                  fs \in Listings(MaxEntries - TotalEntries(fsys, DOMAIN fsys)) }

(***************************************************************************)
(* The state machine.                                                      *)
(***************************************************************************)

NoReturn == [set |-> FALSE, lib |-> NewLib(<<>>), err |-> nil]

Returned(l, e) == [set |-> TRUE, lib |-> l, err |-> e]

Frame(dir) == [pc |-> "enter", root |-> dir, lib |-> NewLib(dir), fs |-> <<>>, i |-> 1]

Top == stack[Len(stack)]

Pop == SubSeq(stack, 1, Len(stack) - 1)

SetTop(f) == [stack EXCEPT ![Len(stack)] = f]

\* The caller makes the call NewLibrary(root, extensions, playlistExtensions).
Init ==
    /\ root \in Roots
    /\ extensions \in MediaLists
    /\ playlistExtensions \in PlaylistLists
    /\ stack = << Frame(root) >>
    /\ ret = NoReturn
    /\ fsys = << >>
    /\ reads = << >>

\* NewLibrary returns the empty-extension-set error.
RejectNoExtensions ==
    /\ stack # <<>> /\ ~ret.set /\ Top.pc = "enter"
    /\ NoExtensions(extensions)
    /\ ret' = Returned(Top.lib, ExtensionSetError(Top.root))
    /\ stack' = Pop
    /\ UNCHANGED <<root, extensions, playlistExtensions, fsys, reads>>

\* NewLibrary returns the overlap error from inside the loop that fills pext.
RejectOverlap ==
    /\ stack # <<>> /\ ~ret.set /\ Top.pc = "enter"
    /\ ~NoExtensions(extensions)
    /\ FirstOverlap(extensions, playlistExtensions) # 0
    /\ LET e == playlistExtensions[FirstOverlap(extensions, playlistExtensions)]
       IN  ret' = Returned(Top.lib, OverlapError(Top.root, e))
    /\ stack' = Pop
    /\ UNCHANGED <<root, extensions, playlistExtensions, fsys, reads>>

\* NewLibrary reads the directory: the read fails, the directory is empty,
\* or the loop over the entries starts.
ReadDir ==
    /\ stack # <<>> /\ ~ret.set /\ Top.pc = "enter"
    /\ ~NoExtensions(extensions)
    /\ FirstOverlap(extensions, playlistExtensions) = 0
    /\ \E out \in ReadDirOutcomes(Top.root) :
        /\ fsys' = [p \in DOMAIN fsys \cup {Top.root} |->
                        IF p = Top.root THEN out ELSE fsys[p]]
        /\ reads' = Append(reads, Top.root)
        /\ IF out.err # nil
           THEN /\ ret' = Returned(Top.lib, OpenError(Top.root, out.err))
                /\ stack' = Pop
           ELSE IF IsEmptyListing(out.list)
           THEN /\ ret' = Returned(Top.lib, EmptyLibraryError(Top.root))
                /\ stack' = Pop
           ELSE /\ ret' = ret
                /\ stack' = SetTop([Top EXCEPT !.pc = "loop", !.fs = out.list])
    /\ UNCHANGED <<root, extensions, playlistExtensions>>

\* One turn of the loop on a directory: the nested call is made.
LoopDir ==
    /\ stack # <<>> /\ ~ret.set /\ Top.pc = "loop"
    /\ Top.i <= Len(Top.fs)
    /\ IsDir(Top.fs[Top.i])
    /\ stack' = Append(stack, Frame(Join(Top.root, Top.fs[Top.i].name)))
    /\ UNCHANGED <<root, extensions, playlistExtensions, ret, fsys, reads>>

\* The nested call has returned: the error is handed up, or the nested
\* library is appended and the loop goes on.
NestedReturn ==
    /\ stack # <<>> /\ ret.set
    /\ IF ret.err # nil
       THEN /\ ret' = Returned(Top.lib, NestedError(Top.root, ret.err))
            /\ stack' = Pop
       ELSE /\ ret' = NoReturn
            /\ stack' = SetTop([Top EXCEPT !.lib.nested = Append(@, ret.lib),
                                           !.i = @ + 1])
    /\ UNCHANGED <<root, extensions, playlistExtensions, fsys, reads>>

\* One turn of the loop on an entry that is no directory.
LoopFile ==
    /\ stack # <<>> /\ ~ret.set /\ Top.pc = "loop"
    /\ Top.i <= Len(Top.fs)
    /\ ~IsDir(Top.fs[Top.i])
    /\ LET r == Classify(Top.lib, Top.root, Top.fs[Top.i])
       IN  IF r.err # nil
           THEN /\ ret' = Returned(r.lib, r.err)
                /\ stack' = Pop
           ELSE /\ ret' = ret
                /\ stack' = SetTop([Top EXCEPT !.lib = r.lib, !.i = @ + 1])
    /\ UNCHANGED <<root, extensions, playlistExtensions, fsys, reads>>

\* The loop is over: return lib, nil.
ReturnLib ==
    /\ stack # <<>> /\ ~ret.set /\ Top.pc = "loop"
    /\ Top.i > Len(Top.fs)
    /\ ret' = Returned(Top.lib, nil)
    /\ stack' = Pop
    /\ UNCHANGED <<root, extensions, playlistExtensions, fsys, reads>>

Next ==
    \/ RejectNoExtensions
    \/ RejectOverlap
    \/ ReadDir
    \/ LoopDir
    \/ NestedReturn
    \/ LoopFile
    \/ ReturnLib

Spec == Init /\ [][Next]_vars

\* The top-level call has returned.
Done == stack = <<>> /\ ret.set


(***************************************************************************)
(* Properties.                                                             *)
(***************************************************************************)

\* Every node of a library tree.
RECURSIVE Nodes(_)
Nodes(l) == {l} \cup UNION { Nodes(l.nested[i]) : i \in 1..Len(l.nested) }

\* The listing os.ReadDir gave for the directory of node n.
ListingOf(n) == fsys[n.root].list

DirsOf(n) == SelectSeq(ListingOf(n), LAMBDA f : f.isDir)

FilesOf(n) == SelectSeq(ListingOf(n), LAMBDA f : ~f.isDir)

\* The path of entry name of directory dir: dir, one separator, name.
PathIn(dir, name) ==
    IF dir[Len(dir)] = "/" THEN dir \o name ELSE dir \o <<"/">> \o name

HasDot(s) == \E i \in 1..Len(s) : s[i] = "."

FirstDot(s) ==
    CHOOSE i \in 1..Len(s) : s[i] = "." /\ \A j \in 1..(i - 1) : s[j] # "."

\* The text after the first '.' of a filename; empty without any '.'.
AfterFirstDot(s) ==
    IF HasDot(s) THEN SubSeq(s, FirstDot(s) + 1, Len(s)) ELSE <<>>

\* The filename without its extension.
WithoutExtension(s) ==
    IF HasDot(s) THEN SubSeq(s, 1, FirstDot(s) - 1) ELSE s

MediaSet == Range(extensions)

PlaylistSet == Range(playlistExtensions)

\* The extension lists pass validation.
Accepted == extensions # <<>> /\ MediaSet \cap PlaylistSet = {}

Succeeded == Done /\ ret.err = nil

Failed == Done /\ ret.err # nil

\* The directory was listed and is not empty.
GoodDir(p) == fsys[p].err = nil /\ fsys[p].list # <<>>

\* The call is still at its first step.
AtEntry == stack = << Frame(root) >> /\ ~ret.set

\* C1: when the directory that ends the walk is empty (root or nested), the
\* error of the top-level call unwraps to ErrEmptyLibrary.
C1_EmptyLibraryIdentifiable ==
    ( /\ Done
      /\ reads # <<>>
      /\ fsys[reads[Len(reads)]].err = nil
      /\ fsys[reads[Len(reads)]].list = <<>> )
    => Is(ret.err, ErrEmptyLibrary)

\* C2 as stated: accepted extension lists and a readable root with at least
\* one entry give success and Root() = the input path, whatever the entries.
C2_SucceedsOnAnyNonEmptyRoot ==
    (Done /\ Accepted /\ GoodDir(root))
    => (ret.err = nil /\ Root(ret.lib) = root)

\* C2 amended: accepted extension lists and a walk in which every directory
\* read (the root and every sub-directory reached) is readable and has at
\* least one entry give success and Root() = the input path.
C2_SucceedsWhenEveryDirIsGood ==
    (Done /\ Accepted /\ \A p \in DOMAIN fsys : GoodDir(p))
    => (ret.err = nil /\ Root(ret.lib) = root)

C2_Witness ==
    /\ Succeeded
    /\ root = <<"l", "/">>
    /\ Len(reads) >= 2
    /\ \E i \in 1..Len(fsys[root].list) :
          LET f == fsys[root].list[i]
          IN  ~f.isDir /\ AfterFirstDot(f.name) \notin MediaSet \cup PlaylistSet
    /\ Root(ret.lib) = root

\* C3: a Library returned with an error has no entries and no nested children.
C3_NoPartialTree ==
    Failed =>
        /\ ret.lib.entries = <<>>
        /\ Files(ret.lib) = <<>>
        /\ Nested(ret.lib) = <<>>

\* C4: with a playlist extension that is a media extension too, no directory
\* is ever read and the call returns an error that unwraps to
\* ErrExtensionsOverlap.
C4_OverlapBeforeAnyRead ==
    (MediaSet \cap PlaylistSet # {})
    => /\ reads = <<>>
       /\ fsys = <<>>
       /\ AtEntry \/ (Done /\ Is(ret.err, ErrExtensionsOverlap))

C4_Witness ==
    /\ Done
    /\ Is(ret.err, ErrExtensionsOverlap)
    /\ Len(playlistExtensions) = 2
    /\ playlistExtensions[1] \notin MediaSet
    /\ playlistExtensions[2] \in MediaSet
    /\ reads = <<>>

\* C5: with an empty extensions list, whatever the playlist extensions, no
\* directory is ever read and the call returns an error that unwraps to
\* ErrExtensionSet.
C5_EmptyExtensionSet ==
    (extensions = <<>>)
    => /\ reads = <<>>
       /\ fsys = <<>>
       /\ AtEntry \/ (Done /\ Is(ret.err, ErrExtensionSet))

C5_Witness ==
    /\ Done
    /\ extensions = <<>>
    /\ playlistExtensions # <<>>
    /\ Is(ret.err, ErrExtensionSet)

\* The media files of the directory of node n, in listing order.
MediaPathsOf(n) ==
    LET media == SelectSeq(FilesOf(n), LAMBDA f : AfterFirstDot(f.name) \in MediaSet)
    IN  [i \in 1..Len(media) |-> PathIn(n.root, media[i].name)]

\* C6: at every node of a built tree, Files() is the paths of the direct
\* non-directory entries with a media extension, once each, in listing order.
C6_FilesAreTheDirectMediaFiles ==
    Succeeded => \A n \in Nodes(ret.lib) : Files(n) = MediaPathsOf(n)

C6_Witness ==
    /\ Succeeded
    /\ Len(Files(ret.lib)) = 1
    /\ Len(ret.lib.entries) = 2
    /\ Len(FilesOf(ret.lib)) = 2
    /\ Len(Nested(ret.lib)) = 1
    /\ Files(Nested(ret.lib)[1]) # <<>>

\* The directory p stopped the walk: it could not be read or is empty.
FailingDir(p) == ~GoodDir(p)

\* C7: a returned error carries one "open library <path>" per directory from
\* the root down to the failing one, in that order; the failing directory is
\* the last one read, and every directory read before it was good.
C7_BreadcrumbTrail ==
    Failed =>
        LET bc == Breadcrumbs(ret.err)
        IN  /\ bc # <<>>
            /\ bc[1] = root
            /\ \A k \in 1..(Len(bc) - 1) :
                  \E i \in 1..Len(fsys[bc[k]].list) :
                      /\ fsys[bc[k]].list[i].isDir
                      /\ bc[k + 1] = PathIn(bc[k], fsys[bc[k]].list[i].name)
            /\ reads = <<>> => Len(bc) = 1
            /\ reads # <<>> =>
                  /\ bc[Len(bc)] = reads[Len(reads)]
                  /\ FailingDir(reads[Len(reads)])
                  /\ \A j \in 1..(Len(reads) - 1) : GoodDir(reads[j])

C7_Witness ==
    /\ Failed
    /\ Len(Breadcrumbs(ret.err)) = 3
    /\ Len(reads) = 4
    /\ Len(DirsOf(ret.lib)) = 2

\* C8: at every node of a built tree, Nested() has one child per immediate
\* sub-directory, in listing order, with Root() the joined path and Title()
\* the sub-directory's name; every entry is a file of the listing, and no
\* file of a child is among the node's Files().
C8_NestedAreTheSubdirectories ==
    Succeeded =>
        \A n \in Nodes(ret.lib) :
            /\ Len(Nested(n)) = Len(DirsOf(n))
            /\ \A k \in 1..Len(Nested(n)) :
                  /\ Root(Nested(n)[k]) = PathIn(n.root, DirsOf(n)[k].name)
                  /\ Title(Nested(n)[k]) = DirsOf(n)[k].name
                  /\ Range(Files(n)) \cap Range(Files(Nested(n)[k])) = {}
            /\ \A j \in 1..Len(n.entries) :
                  \E i \in 1..Len(FilesOf(n)) :
                      EntryFiles(n.entries[j]) = << PathIn(n.root, FilesOf(n)[i].name) >>

C8_Witness ==
    /\ Succeeded
    /\ s_mp3 \in MediaSet
    /\ Len(Nested(ret.lib)) = 2
    /\ Title(Nested(ret.lib)[1]) = <<"A", "l", ".", "m", "p", "3">>
    /\ Files(ret.lib) = <<>>
    /\ Len(Files(Nested(ret.lib)[1])) = 1

\* The entries of node n that were made for the file named name.
EntriesFor(n, name, type) ==
    { j \in 1..Len(n.entries) :
        /\ n.entries[j].type = type
        /\ EntryFiles(n.entries[j]) = << PathIn(n.root, name) >> }

\* C9: a file is media iff the text after its first '.' (empty without '.')
\* is a media extension, a playlist iff it is a playlist extension, and
\* skipped otherwise; never both, and once only.
C9_ClassifiedByTextAfterFirstDot ==
    Succeeded =>
        \A n \in Nodes(ret.lib) :
            \A i \in 1..Len(FilesOf(n)) :
                LET name == FilesOf(n)[i].name
                    e == AfterFirstDot(name)
                    m == Cardinality(EntriesFor(n, name, "mediaFile"))
                    p == Cardinality(EntriesFor(n, name, "playlistFile"))
                IN  /\ m = (IF e \in MediaSet THEN 1 ELSE 0)
                    /\ p = (IF e \in PlaylistSet THEN 1 ELSE 0)
                    /\ m + p <= 1

C9_Witness ==
    /\ Succeeded
    /\ extensions = << s_mp3, s_mp3 >>
    /\ Len(FilesOf(ret.lib)) = 3
    /\ FilesOf(ret.lib)[1].name = <<"a", ".", "b", ".", "m", "p", "3">>
    /\ FilesOf(ret.lib)[2].name = <<"a", ".", "m", "p", "3">>
    /\ FilesOf(ret.lib)[3].name = <<"r", "a", "d", "i", "o">>
    /\ Files(ret.lib) = << PathIn(root, <<"a", ".", "m", "p", "3">>) >>

\* C10: a playlist entry has the filename without its extension as Title(),
\* its own path alone as Files(), and no Nested().
C10_PlaylistEntry ==
    Succeeded =>
        \A n \in Nodes(ret.lib) :
            \A j \in 1..Len(n.entries) :
                n.entries[j].type = "playlistFile" =>
                    \E i \in 1..Len(FilesOf(n)) :
                        /\ EntryFiles(n.entries[j]) = << PathIn(n.root, FilesOf(n)[i].name) >>
                        /\ EntryNested(n.entries[j]) = <<>>
                        /\ EntryTitle(n.entries[j]) = WithoutExtension(FilesOf(n)[i].name)

====
